---------------------------- MODULE Spec2Model ----------------------------
(***************************************************************************)
(* A model of the ArXiv fetcher (src/arxiv_fetcher.py, src/af.py): the     *)
(* feed parser, the keyword and SVO extractors, the collection operations  *)
(* (filter by author, search by title, rank by keyword) and the menu loop. *)
(*                                                                         *)
(* A Python str is a sequence of one-character strings.  A Python list is  *)
(* an object on `heap', named by a reference, so that "returns a new list" *)
(* and "mutates its argument" are different things.                        *)
(***************************************************************************)
EXTENDS Integers, Sequences, FiniteSets, TLC

VARIABLES
    heap,       \* reference -> contents of every live list object
    papersRef,  \* the list bound to `papers' (the argument / the session's collection)
    resultRef,  \* the list the last collection operation returned (0: none)
    arg,        \* the author name / keyword handed to the last operation
    called,     \* the function the last step invoked
    input0,     \* history: contents of the `papers' list when the call was made
    choice,     \* interactive_menu: the menu choice just handled
    pc,         \* control state
    text,       \* extract_keywords / summarize_papers: the text argument (paper summary)
    nlp,        \* the loaded language model: its token classifier
    top_n,      \* extract_keywords: top_n
    keywords,   \* extract_keywords: the list returned
    doc,        \* extract_svo: the parsed tokens nlp(text)
    svos,       \* extract_svo: the list returned
    data,       \* parse_arxiv_results: the feed's entries
    parsed,     \* the list parse_arxiv_results / fetch_arxiv_papers returned
    fetchError  \* fetch_arxiv_papers: the try block raised

vars == <<heap, papersRef, resultRef, arg, called, input0, choice, pc,
          text, nlp, top_n, keywords, doc, svos, data, parsed, fetchError>>

collVars == <<heap, papersRef, resultRef, arg, called, input0>>
kwVars   == <<text, nlp, top_n, keywords>>
svoVars  == <<doc, svos>>
parseVars == <<data, parsed, fetchError>>

(***************************************************************************)
(* Bounds of the model.                                                    *)
(***************************************************************************)
MaxPapers == 3      \* papers in a collection
MaxArgLen == 2      \* characters in an author name / keyword argument

(***************************************************************************)
(* Python strings.                                                         *)
(***************************************************************************)
Letters == {"a", "A", "b", "B"}
Space   == " "
Digit   == "1"

\* str.lower() on one character
LowerChar(c) == CASE c = "A" -> "a" [] c = "B" -> "b" [] OTHER -> c

\* str.lower()
Lower(s) == [i \in 1..Len(s) |-> LowerChar(s[i])]

\* `k in s' for two str: k is a substring of s
StrIn(k, s) == \E i \in 0..(Len(s) - Len(k)) : SubSeq(s, i + 1, i + Len(k)) = k

\* str.count(k) from position `from': occurrences found left to right, the
\* scan resuming after the end of each match; the empty string matches
\* between all characters
RECURSIVE CountFrom(_, _, _)
CountFrom(s, k, from) ==
    IF Len(k) = 0 THEN Len(s) - from + 2
    ELSE IF from + Len(k) - 1 > Len(s) THEN 0
    ELSE IF SubSeq(s, from, from + Len(k) - 1) = k
         THEN 1 + CountFrom(s, k, from + Len(k))
         ELSE CountFrom(s, k, from + 1)

StrCount(s, k) == CountFrom(s, k, 1)

\* all str over `chars' of at most n characters
RECURSIVE StrUpTo(_, _)
StrUpTo(chars, n) ==
    IF n = 0 THEN {<<>>}
    ELSE LET shorter == StrUpTo(chars, n - 1)
         IN shorter \cup {Append(s, c) : s \in shorter, c \in chars}

(***************************************************************************)
(* Python lists.                                                           *)
(***************************************************************************)
Reverse(s) == [i \in 1..Len(s) |-> s[Len(s) + 1 - i]]

\* `x in it' for an iterable of str: compares x with each item in turn
RECURSIVE ItemIn(_, _)
ItemIn(x, items) ==
    IF items = <<>> THEN FALSE
    ELSE IF Head(items) = x THEN TRUE
    ELSE ItemIn(x, Tail(items))

\* One step of list.sort's (binary) insertion: the decorated item x goes after
\* every item whose key is not greater than its own.
RECURSIVE InsertSorted(_, _)
InsertSorted(sortedItems, x) ==
    IF sortedItems = <<>> THEN <<x>>
    ELSE IF x.key < Head(sortedItems).key THEN <<x>> \o sortedItems
    ELSE <<Head(sortedItems)>> \o InsertSorted(Tail(sortedItems), x)

RECURSIVE SortAscending(_)
SortAscending(items) ==
    IF items = <<>> THEN <<>>
    ELSE InsertSorted(SortAscending(SubSeq(items, 1, Len(items) - 1)), items[Len(items)])

\* sorted(items, key=...) with the keys already computed (no reverse)
SortedNoReverse(items, keys) ==
    LET decorated == [i \in 1..Len(items) |-> [key |-> keys[i], item |-> items[i]]]
        s == SortAscending(decorated)
    IN [i \in 1..Len(s) |-> s[i].item]

\* sorted(items, key=..., reverse=True) with the keys already computed:
\* list.sort reverses the list, sorts it ascending and stably, and reverses it back
SortedReverse(items, keys) ==
    LET decorated == [i \in 1..Len(items) |-> [key |-> keys[i], item |-> items[i]]]
        s == Reverse(SortAscending(Reverse(decorated)))
    IN [i \in 1..Len(s) |-> s[i].item]

\* Faulty variant of NewList: the operation works in place on its argument.
InPlaceList(h, src, contents) ==
    [heap |-> [h EXCEPT ![src] = contents], ref |-> src]

\* A list comprehension over / sorted() of the list `src' builds a new list
\* object holding `contents'; the list `src' is only read.
NewList(h, src, contents) ==
    LET r == CHOOSE n \in 1..(Cardinality(DOMAIN h) + 1) :
                 /\ n \notin DOMAIN h
                 /\ \A m \in 1..(n - 1) : m \in DOMAIN h
    IN [heap |-> [x \in DOMAIN h \cup {r} |-> IF x = r THEN contents ELSE h[x]],
        ref |-> r]

(***************************************************************************)
(* Collection operations (src/arxiv_fetcher.py 118-137).                   *)
(***************************************************************************)
\* Faulty variant: the author name is matched as a substring of an author.
FilterBySubstring(papers, author_name) ==
    SelectSeq(papers, LAMBDA paper :
        \E i \in 1..Len(paper.authors) : StrIn(Lower(author_name), Lower(paper.authors[i])))

filter_papers_by_author(papers, author_name) ==
    SelectSeq(papers, LAMBDA paper :
        ItemIn(Lower(author_name),
               [i \in 1..Len(paper.authors) |-> Lower(paper.authors[i])]))

\* Faulty variant: the title is not lower-cased before the test.
SearchCaseSensitive(papers, keyword) ==
    SelectSeq(papers, LAMBDA paper : StrIn(Lower(keyword), paper.title))

search_papers_by_title(papers, keyword) ==
    SelectSeq(papers, LAMBDA paper : StrIn(Lower(keyword), Lower(paper.title)))

keyword_count(summary, keyword) == StrCount(Lower(summary), Lower(keyword))

\* Faulty variant: an unstable descending order (ascending sort, then reversed).
RankReversedAscending(papers, keyword) ==
    Reverse(SortedNoReverse(papers,
        [i \in 1..Len(papers) |-> keyword_count(papers[i].summary, keyword)]))

rank_papers_by_keyword(papers, keyword) ==
    SortedReverse(papers,
        [i \in 1..Len(papers) |-> keyword_count(papers[i].summary, keyword)])

(***************************************************************************)
(* Inputs of the collection operations.  An author name in a parsed paper  *)
(* is never the empty str: ElementTree gives None, not "", for an element  *)
(* without text.                                                           *)
(***************************************************************************)
PaperPool ==
    { [title |-> <<"A", "b">>,  authors |-> << <<"a", "b">> >>,
       summary |-> <<"a", "A", "a">>],
      [title |-> <<"b", "a">>,  authors |-> << <<"A", "b">>, <<"b">> >>,
       summary |-> <<"a", "b">>],
      [title |-> <<>>,          authors |-> <<>>,
       summary |-> <<"b">>],
      [title |-> <<"B">>,       authors |-> << <<"a">> >>,
       summary |-> <<"A", "a", "b">>],
      [title |-> <<"a", "A">>,  authors |-> << <<"b", "a">>, <<"A">> >>,
       summary |-> <<>>],
      [title |-> <<"b">>,       authors |-> << <<"B">> >>,
       summary |-> <<"A", "A">>] }

RECURSIVE ListsUpTo(_, _)
ListsUpTo(pool, n) ==
    IF n = 0 THEN {<<>>}
    ELSE LET shorter == ListsUpTo(pool, n - 1)
         IN shorter \cup {Append(l, p) : l \in shorter, p \in pool}

PaperLists == ListsUpTo(PaperPool, MaxPapers)
ArgChars   == {"a", "A", "b"}
Args       == StrUpTo(ArgChars, MaxArgLen)

(***************************************************************************)
(* Values of the variables a specification does not use.                   *)
(***************************************************************************)
CollIdle ==
    /\ heap = <<>> /\ papersRef = 0 /\ resultRef = 0
    /\ arg = <<>> /\ called = "none" /\ input0 = <<>>
KwIdle    == text = <<>> /\ nlp = [stop |-> {}, ctx |-> {}] /\ top_n = 0 /\ keywords = <<>>
SvoIdle   == doc = <<>> /\ svos = <<>>
ParseIdle == data = <<>> /\ parsed = <<>> /\ fetchError = FALSE

(***************************************************************************)
(* SpecColl: one call of a collection operation on a list of papers.       *)
(***************************************************************************)
InitColl ==
    /\ \E l \in PaperLists : heap = <<l>> /\ input0 = l
    /\ papersRef = 1 /\ resultRef = 0 /\ arg = <<>> /\ called = "none"
    /\ choice = "" /\ pc = "ready"
    /\ KwIdle /\ SvoIdle /\ ParseIdle

Returned(out, a, fn) ==
    /\ heap' = out.heap
    /\ resultRef' = out.ref
    /\ arg' = a
    /\ called' = fn
    /\ input0' = heap[papersRef]

CallFilter ==
    /\ pc = "ready"
    /\ \E a \in Args :
         Returned(NewList(heap, papersRef, filter_papers_by_author(heap[papersRef], a)),
                  a, "filter")
    /\ pc' = "done"
    /\ UNCHANGED <<papersRef, choice, kwVars, svoVars, parseVars>>

CallSearch ==
    /\ pc = "ready"
    /\ \E a \in Args :
         Returned(NewList(heap, papersRef, search_papers_by_title(heap[papersRef], a)),
                  a, "search")
    /\ pc' = "done"
    /\ UNCHANGED <<papersRef, choice, kwVars, svoVars, parseVars>>

CallRank ==
    /\ pc = "ready"
    /\ \E a \in Args :
         Returned(NewList(heap, papersRef, rank_papers_by_keyword(heap[papersRef], a)),
                  a, "rank")
    /\ pc' = "done"
    /\ UNCHANGED <<papersRef, choice, kwVars, svoVars, parseVars>>

NextColl == CallFilter \/ CallSearch \/ CallRank

SpecColl == InitColl /\ [][NextColl]_vars

(***************************************************************************)
(* What the claims say, stated without the operations' own helpers.        *)
(***************************************************************************)
\* two characters equal up to case
SameLetter(c, d) ==
    \/ c = d
    \/ {c, d} = {"a", "A"}
    \/ {c, d} = {"b", "B"}

\* k occurs in s at offset i (0-based), ignoring case
OccursAt(s, k, i) ==
    /\ i + Len(k) <= Len(s)
    /\ \A j \in 1..Len(k) : SameLetter(s[i + j], k[j])

EqualIgnoringCase(s, t) == Len(s) = Len(t) /\ OccursAt(s, t, 0)

ContainsIgnoringCase(s, k) == \E i \in 0..Len(s) : OccursAt(s, k, i)

\* the largest number of pairwise non-overlapping occurrences of k in s
NonOverlappingCount(s, k) ==
    LET occ == {i \in 0..Len(s) : OccursAt(s, k, i)}
        disjoint(P) == \A i \in P : \A j \in P : i < j => i + Len(k) <= j
        sizes == {Cardinality(P) : P \in {Q \in SUBSET occ : disjoint(Q)}}
    IN CHOOSE n \in sizes : \A m \in sizes : m <= n

\* out holds exactly the elements of in at the indices I, in the order of in
IsSubsequenceAt(out, in, I) ==
    /\ Len(out) = Cardinality(I)
    /\ \A i \in I : out[Cardinality({j \in I : j <= i})] = in[i]

IndexPermutations(n) == {f \in [1..n -> 1..n] : \A i, j \in 1..n : f[i] = f[j] => i = j}

Result == heap[resultRef]

\* C1: rank_papers_by_keyword returns a permutation of its input in descending
\* order of the case-insensitive count of non-overlapping occurrences of the
\* keyword in the summary, papers of equal count keeping their input order.
C1_RankDescendingStable ==
    called = "rank" =>
        LET n == Len(input0)
            cnt(p) == NonOverlappingCount(p.summary, arg)
        IN /\ Len(Result) = n
           /\ \E f \in IndexPermutations(n) :
                /\ \A i \in 1..n : Result[i] = input0[f[i]]
                /\ \A i, j \in 1..n : i < j =>
                     \/ cnt(Result[i]) > cnt(Result[j])
                     \/ cnt(Result[i]) = cnt(Result[j]) /\ f[i] < f[j]

\* a ranking that moved a paper, with two different papers tied on the count
C1_Witness ==
    /\ called = "rank"
    /\ Result # input0
    /\ \E i, j \in 1..Len(Result) :
         /\ i < j
         /\ Result[i] # Result[j]
         /\ NonOverlappingCount(Result[i].summary, arg)
              = NonOverlappingCount(Result[j].summary, arg)
    /\ \E i \in 1..Len(Result) : NonOverlappingCount(Result[i].summary, arg) >= 3

AuthorMatches(paper, name) ==
    \E i \in 1..Len(paper.authors) : EqualIgnoringCase(paper.authors[i], name)

\* C2: filter_papers_by_author keeps exactly the papers with an author whose
\* whole name equals the given name ignoring case, in input order; the empty
\* name matches no paper.
C2_FilterExactAuthor ==
    called = "filter" =>
        /\ IsSubsequenceAt(Result, input0,
               {i \in 1..Len(input0) : AuthorMatches(input0[i], arg)})
        /\ (arg = <<>> => Result = <<>>)

\* a filter that kept a paper whose author differs in case only, and dropped
\* a paper one of whose authors merely contains the name
C2_Witness ==
    /\ called = "filter"
    /\ \E i \in 1..Len(Result) :
         /\ AuthorMatches(Result[i], arg)
         /\ \A k \in 1..Len(Result[i].authors) : Result[i].authors[k] # arg
    /\ \E i \in 1..Len(input0) :
         /\ ~AuthorMatches(input0[i], arg)
         /\ \E k \in 1..Len(input0[i].authors) :
              ContainsIgnoringCase(input0[i].authors[k], arg)

\* C3: search_papers_by_title returns exactly the papers whose title contains
\* the keyword ignoring case, in input order; the empty keyword keeps all.
C3_SearchTitleSubstring ==
    called = "search" =>
        /\ IsSubsequenceAt(Result, input0,
               {i \in 1..Len(input0) : ContainsIgnoringCase(input0[i].title, arg)})
        /\ (arg = <<>> => Result = input0)

\* a search that kept a title matching in another case and dropped a paper
\* standing between two kept ones
C3_Witness ==
    /\ called = "search"
    /\ Len(Result) = 2 /\ Len(input0) = 3
    /\ ~ContainsIgnoringCase(input0[2].title, arg)
    /\ \E i \in 1..Len(Result) : ~StrIn(arg, Result[i].title)

\* C4: the three operations leave their input list as it was (length, order,
\* papers) and return a list object other than their input.
C4_InputNotMutated ==
    called \in {"filter", "search", "rank"} =>
        /\ heap[papersRef] = input0
        /\ resultRef \in DOMAIN heap
        /\ resultRef # papersRef

\* each operation returned a list that differs from its input
C4_Witness ==
    /\ called = "rank"
    /\ Result # heap[papersRef]
    /\ Len(heap[papersRef]) = MaxPapers

(***************************************************************************)
(* The language model `nlp' (src/arxiv_fetcher.py 15).  nlp(text) splits   *)
(* the text at white space into tokens.  A token is_alpha when all its     *)
(* characters are letters.  The model's classifier marks a token is_stop   *)
(* from its lower-cased text: when that is in nlp.stop, or, for a          *)
(* classifier that looks at context, when it is in nlp.ctx and the token   *)
(* opens the text.                                                         *)
(***************************************************************************)
MaxTextLen == 5     \* characters in a text handed to extract_keywords
MaxTopN    == 3     \* largest top_n tried
DefaultTopN == 10   \* extract_keywords(text, top_n=10)

TextChars == {"a", "A", "b", Digit, Space}

RECURSIVE SplitWords(_, _, _)
SplitWords(rest, word, done) ==
    IF rest = <<>> THEN (IF word = <<>> THEN done ELSE Append(done, word))
    ELSE IF Head(rest) = Space
         THEN SplitWords(Tail(rest), <<>>, IF word = <<>> THEN done ELSE Append(done, word))
         ELSE SplitWords(Tail(rest), Append(word, Head(rest)), done)

IsAlpha(word) == word # <<>> /\ \A i \in 1..Len(word) : word[i] \in Letters

NlpDoc(txt) ==
    LET words == SplitWords(txt, <<>>, <<>>)
    IN [i \in 1..Len(words) |->
          [text     |-> words[i],
           is_alpha |-> IsAlpha(words[i]),
           is_stop  |-> \/ Lower(words[i]) \in nlp.stop
                        \/ i = 1 /\ Lower(words[i]) \in nlp.ctx]]

\* Faulty variant: `not token.is_stop' forgotten.
AlphaTokens(d) ==
    LET sel == SelectSeq(d, LAMBDA token : token.is_alpha)
    IN [i \in 1..Len(sel) |-> sel[i].text]

\* [token.text for token in doc if token.is_alpha and not token.is_stop]
KeptTokens(d) ==
    LET sel == SelectSeq(d, LAMBDA token : token.is_alpha /\ ~token.is_stop)
    IN [i \in 1..Len(sel) |-> sel[i].text]

\* " ".join(words)
RECURSIVE JoinWords(_, _)
JoinWords(words, sep) ==
    IF words = <<>> THEN <<>>
    ELSE IF Len(words) = 1 THEN Head(words)
    ELSE Head(words) \o sep \o JoinWords(Tail(words), sep)

\* Faulty variant: the kept tokens are lower-cased on the way.
PreprocessLowered(txt) == Lower(JoinWords(KeptTokens(NlpDoc(txt)), <<Space>>))

preprocess_text(txt) == JoinWords(KeptTokens(NlpDoc(txt)), <<Space>>)

\* Counter(words): a dict word -> count, in order of first insertion
RECURSIVE CounterAdd(_, _)
CounterAdd(items, w) ==
    IF items = <<>> THEN << [word |-> w, count |-> 1] >>
    ELSE IF Head(items).word = w
         THEN << [word |-> w, count |-> Head(items).count + 1] >> \o Tail(items)
         ELSE << Head(items) >> \o CounterAdd(Tail(items), w)

RECURSIVE Counter(_)
Counter(words) ==
    IF words = <<>> THEN <<>>
    ELSE CounterAdd(Counter(SubSeq(words, 1, Len(words) - 1)), words[Len(words)])

\* s[:n]
SliceTo(s, n) ==
    IF n >= 0 THEN SubSeq(s, 1, IF n < Len(s) THEN n ELSE Len(s))
    ELSE SubSeq(s, 1, IF Len(s) + n > 0 THEN Len(s) + n ELSE 0)

\* max(items, key=count): the first item of the largest count
RECURSIVE MaxByCount(_, _)
MaxByCount(best, rest) ==
    IF rest = <<>> THEN best
    ELSE MaxByCount(IF Head(rest).count > best.count THEN Head(rest) ELSE best, Tail(rest))

\* the heap's smallest entry: (k, order, elem) tuples compare by k, then order
HeapTop(entries) ==
    CHOOSE e \in entries : \A f \in entries :
        e.k < f.k \/ (e.k = f.k /\ e.order <= f.order)

\* heapq.nlargest's loop over the items after the first n
RECURSIVE NLargestLoop(_, _, _)
NLargestLoop(entries, rest, order) ==
    IF rest = <<>> THEN entries
    ELSE LET top == HeapTop(entries)
             elem == Head(rest)
         IN IF top.k < elem.count
            THEN NLargestLoop((entries \ {top}) \cup
                                  {[k |-> elem.count, order |-> order, elem |-> elem]},
                              Tail(rest), order - 1)
            ELSE NLargestLoop(entries, Tail(rest), order)

\* sorted(result, reverse=True) of the heap's entries
RECURSIVE EntriesDescending(_)
EntriesDescending(entries) ==
    IF entries = {} THEN <<>>
    ELSE LET top == HeapTop(entries)
         IN Append(EntriesDescending(entries \ {top}), top.elem)

\* heapq.nlargest(n, items, key=itemgetter(1))
NLargest(n, items) ==
    IF n = 1
    THEN (IF items = <<>> THEN <<>> ELSE << MaxByCount(Head(items), Tail(items)) >>)
    ELSE IF n >= Len(items)
    THEN SliceTo(SortedReverse(items, [i \in 1..Len(items) |-> items[i].count]), n)
    ELSE LET first == IF n > 0 THEN SubSeq(items, 1, n) ELSE <<>>
             entries == {[k |-> first[i].count, order |-> 1 - i, elem |-> first[i]] :
                            i \in 1..Len(first)}
         IN IF first = <<>> THEN <<>>
            ELSE EntriesDescending(
                     NLargestLoop(entries, SubSeq(items, n + 1, Len(items)), 0 - n))

\* Faulty variant: the top n taken as a slice of the sorted items.
MostCommonBySlice(items, n) ==
    SliceTo(SortedReverse(items, [i \in 1..Len(items) |-> items[i].count]), n)

\* Counter.most_common(n), n not None
MostCommon(items, n) == NLargest(n, items)

extract_keywords(txt, n) == MostCommon(Counter(KeptTokens(NlpDoc(txt))), n)

(***************************************************************************)
(* SpecKw: a call of extract_keywords(text, top_n), and the keyword lines  *)
(* summarize_papers prints for a paper whose summary is `text'.            *)
(***************************************************************************)
Texts       == StrUpTo(TextChars, MaxTextLen)
TopNs       == (0 - 1)..MaxTopN
Classifiers == { [stop |-> {},        ctx |-> {}],
                 [stop |-> {<<"b">>}, ctx |-> {}],
                 [stop |-> {},        ctx |-> {<<"a">>}] }

InitKw ==
    /\ text \in Texts
    /\ nlp \in Classifiers
    /\ top_n \in TopNs
    /\ keywords = <<>>
    /\ choice = "" /\ pc = "ready"
    /\ CollIdle /\ SvoIdle /\ ParseIdle

CallExtractKeywords ==
    /\ pc = "ready"
    /\ keywords' = extract_keywords(text, top_n)
    /\ pc' = "extracted"
    /\ UNCHANGED <<text, nlp, top_n, choice, collVars, svoVars, parseVars>>

\* summarize_papers, lines 94-95 and 98-100: the keywords it prints
SummarizeKeywords ==
    /\ pc = "ready"
    /\ top_n' = DefaultTopN
    /\ keywords' = extract_keywords(preprocess_text(text), top_n')
    /\ pc' = "summarized"
    /\ UNCHANGED <<text, nlp, choice, collVars, svoVars, parseVars>>

NextKw == CallExtractKeywords \/ SummarizeKeywords

SpecKw == InitKw /\ [][NextKw]_vars

\* the tokens of `text' that are alphabetic and not stopwords, by position
KeptAt == {i \in 1..Len(NlpDoc(text)) :
              NlpDoc(text)[i].is_alpha /\ ~NlpDoc(text)[i].is_stop}
KeptWordSet == {NlpDoc(text)[i].text : i \in KeptAt}
Occurrences(w) == Cardinality({i \in KeptAt : NlpDoc(text)[i].text = w})
FirstAt(w) == CHOOSE i \in KeptAt :
                 /\ NlpDoc(text)[i].text = w
                 /\ \A j \in KeptAt : NlpDoc(text)[j].text = w => i <= j
\* word v ranks before word w
RanksBefore(v, w) ==
    \/ Occurrences(v) > Occurrences(w)
    \/ Occurrences(v) = Occurrences(w) /\ FirstAt(v) < FirstAt(w)

\* C5: for top_n >= 1 extract_keywords returns the (text, count) pairs of the
\* alphabetic non-stopword tokens, case variants apart, by count descending
\* and then by first occurrence, cut to the first top_n; no stopword token and
\* no non-alphabetic token is counted or returned.
C5_KeywordsRanked ==
    (pc = "extracted" /\ top_n >= 1) =>
        LET n == Len(keywords)
            words == {keywords[i].word : i \in 1..n}
        IN /\ n = IF Cardinality(KeptWordSet) < top_n
                  THEN Cardinality(KeptWordSet) ELSE top_n
           /\ \A i \in 1..n :
                /\ keywords[i].word \in KeptWordSet
                /\ keywords[i].count = Occurrences(keywords[i].word)
                /\ IsAlpha(keywords[i].word)
                /\ (nlp.ctx = {} => Lower(keywords[i].word) \notin nlp.stop)
           /\ \A i, j \in 1..n : i < j => RanksBefore(keywords[i].word, keywords[j].word)
           /\ \A w \in KeptWordSet \ words : \A v \in words : RanksBefore(v, w)

\* a call that counted two case variants apart, with a tie, and cut the list
C5_Witness ==
    /\ pc = "extracted" /\ top_n = 2
    /\ Len(keywords) = 2
    /\ Cardinality(KeptWordSet) = 3
    /\ keywords[1].count = keywords[2].count
    /\ \E i, j \in KeptAt : NlpDoc(text)[i].text # NlpDoc(text)[j].text
                           /\ Lower(NlpDoc(text)[i].text) = Lower(NlpDoc(text)[j].text)

\* C6: extract_keywords(text, N) returns at most N entries for N >= 0 and
\* none for N <= 0.
C6_TopNBound ==
    pc = "extracted" =>
        /\ (top_n >= 0 => Len(keywords) <= top_n)
        /\ (top_n <= 0 => keywords = <<>>)

\* a call with a negative top_n on a text that has several keywords
C6_Witness ==
    /\ pc = "extracted" /\ top_n < 0
    /\ Cardinality(KeptWordSet) >= 2
    /\ keywords = <<>>

MaxSvoTokens == 4   \* tokens in a parsed text

SubjectDeps == {"nsubj", "nsubjpass"}
ObjectDeps  == {"dobj", "pobj", "attr"}

\* indices of token.lefts / token.rights: the token's children before / after it
Lefts(d, i)  == {j \in 1..Len(d) : j < i /\ d[j].head = i}
Rights(d, i) == {j \in 1..Len(d) : j > i /\ d[j].head = i}

\* [w.text for w in children if w.dep_ in deps], children in token order
RECURSIVE TextsWithDep(_, _, _, _)
TextsWithDep(d, children, deps, from) ==
    IF from > Len(d) THEN <<>>
    ELSE (IF from \in children /\ d[from].dep \in deps THEN <<d[from].text>> ELSE <<>>)
         \o TextsWithDep(d, children, deps, from + 1)

\* the body of the loop `for token in doc', from token i on
RECURSIVE SvoLoop(_, _, _)
SvoLoop(d, i, found) ==
    IF i > Len(d) THEN found
    ELSE IF d[i].dep = "ROOT"
    THEN LET subjects == TextsWithDep(d, Lefts(d, i), SubjectDeps, 1)
             objects  == TextsWithDep(d, Rights(d, i), ObjectDeps, 1)
         IN IF subjects # <<>> /\ objects # <<>>
            THEN SvoLoop(d, i + 1, Append(found, <<subjects[1], d[i].text, objects[1]>>))
            ELSE SvoLoop(d, i + 1, found)
    ELSE SvoLoop(d, i + 1, found)

\* Faulty variant: the last subject and the last object are taken.
RECURSIVE SvoLoopLast(_, _, _)
SvoLoopLast(d, i, found) ==
    IF i > Len(d) THEN found
    ELSE IF d[i].dep = "ROOT"
    THEN LET subjects == TextsWithDep(d, Lefts(d, i), SubjectDeps, 1)
             objects  == TextsWithDep(d, Rights(d, i), ObjectDeps, 1)
         IN IF subjects # <<>> /\ objects # <<>>
            THEN SvoLoopLast(d, i + 1,
                     Append(found, <<subjects[Len(subjects)], d[i].text,
                                     objects[Len(objects)]>>))
            ELSE SvoLoopLast(d, i + 1, found)
    ELSE SvoLoopLast(d, i + 1, found)

ExtractSvoLast(d) == SvoLoopLast(d, 1, <<>>)

extract_svo(d) == SvoLoop(d, 1, <<>>)

(***************************************************************************)
(* SpecSvo: a call of extract_svo on a parsed text.  The parses are all    *)
(* dependency forests of at most MaxSvoTokens tokens.                      *)
(***************************************************************************)
TokenTexts  == <<"Researchers", "often", "study", "models", "today", "again">>
NonRootDeps == SubjectDeps \cup ObjectDeps \cup {"advmod"}

\* following the heads from token i for k steps ends at a token that is its own head
RECURSIVE ReachesRoot(_, _, _)
ReachesRoot(h, i, k) ==
    IF h[i] = i THEN TRUE
    ELSE IF k = 0 THEN FALSE
    ELSE ReachesRoot(h, h[i], k - 1)

HeadForests(n) == {h \in [1..n -> 1..n] : \A i \in 1..n : ReachesRoot(h, i, n)}

\* the parse with heads h and the labels l of the tokens that are not roots
ParseOf(n, h, l) ==
    [i \in 1..n |-> [text |-> TokenTexts[i],
                     dep  |-> IF h[i] = i THEN "ROOT" ELSE l[i],
                     head |-> h[i]]]

InitSvo ==
    /\ \E n \in 0..MaxSvoTokens : \E h \in HeadForests(n) :
         \E l \in [{i \in 1..n : h[i] # i} -> NonRootDeps] :
            doc = ParseOf(n, h, l)
    /\ svos = <<>>
    /\ choice = "" /\ pc = "ready"
    /\ CollIdle /\ KwIdle /\ ParseIdle

CallExtractSvo ==
    /\ pc = "ready"
    /\ svos' = extract_svo(doc)
    /\ pc' = "extracted"
    /\ UNCHANGED <<doc, choice, collVars, kwVars, parseVars>>

NextSvo == CallExtractSvo

SpecSvo == InitSvo /\ [][NextSvo]_vars

SubjectsOf(i) == {j \in 1..Len(doc) : j < i /\ doc[j].head = i /\ doc[j].dep \in SubjectDeps}
ObjectsOf(i)  == {j \in 1..Len(doc) : j > i /\ doc[j].head = i /\ doc[j].dep \in ObjectDeps}
Least(S) == CHOOSE x \in S : \A y \in S : x <= y
CompleteRoots == {i \in 1..Len(doc) :
                     doc[i].dep = "ROOT" /\ SubjectsOf(i) # {} /\ ObjectsOf(i) # {}}

MaxEntries == 2     \* entries in a feed

PyNone == <<"None">>

Missing    == [kind |-> "missing", text |-> <<>>]
NoText     == [kind |-> "none", text |-> <<>>]
XmlText(s) == [kind |-> "text", text |-> s]

\* str.strip()
RECURSIVE LStrip(_)
LStrip(s) == IF s # <<>> /\ Head(s) = Space THEN LStrip(Tail(s)) ELSE s

Strip(s) == Reverse(LStrip(Reverse(LStrip(s))))

\* the try block raises AttributeError: .text of None, or .strip() of None
EntryRaises(entry) ==
    \/ entry.title.kind # "text"
    \/ entry.summary.kind # "text"
    \/ \E i \in 1..Len(entry.authors) : entry.authors[i].kind = "missing"

PaperOf(entry) ==
    [title   |-> Strip(entry.title.text),
     authors |-> [i \in 1..Len(entry.authors) |->
                     IF entry.authors[i].kind = "text"
                     THEN entry.authors[i].text ELSE PyNone],
     summary |-> Strip(entry.summary.text)]

\* the loop `for entry in entries'
RECURSIVE ParseLoop(_, _)
ParseLoop(entries, papers) ==
    IF entries = <<>> THEN papers
    ELSE ParseLoop(Tail(entries),
                   IF EntryRaises(Head(entries)) THEN papers
                   ELSE Append(papers, PaperOf(Head(entries))))

parse_arxiv_results(entries) == ParseLoop(entries, <<>>)

(***************************************************************************)
(* SpecParse: a call of parse_arxiv_results on a feed.                     *)
(***************************************************************************)
XmlTitles    == {Missing, NoText, XmlText(<<Space>>), XmlText(<<"a">>),
                 XmlText(<<Space, "A", "b", Space>>)}
XmlAuthors   == {<<>>, <<Missing>>, <<NoText>>, <<XmlText(<<"a", "b">>)>>,
                 <<XmlText(<<"a", "b">>), XmlText(<<"B">>)>>}
XmlSummaries == {Missing, NoText, XmlText(<<Space>>), XmlText(<<"a", Space, "A">>),
                 XmlText(<<"b">>)}
EntryPool    == [title : XmlTitles, authors : XmlAuthors, summary : XmlSummaries]

InitParse ==
    /\ \E n \in 0..MaxEntries : data \in [1..n -> EntryPool]
    /\ parsed = <<>> /\ fetchError = FALSE
    /\ choice = "" /\ pc = "ready"
    /\ CollIdle /\ KwIdle /\ SvoIdle

CallParse ==
    /\ pc = "ready"
    /\ parsed' = parse_arxiv_results(data)
    /\ pc' = "parsed"
    /\ UNCHANGED <<data, fetchError, choice, collVars, kwVars, svoVars>>

NextParse == CallParse

SpecParse == InitParse /\ [][NextParse]_vars

\* C8: every paper parse_arxiv_results returns has a non-empty title, a
\* non-empty summary and str author names.
C8_ParsedPapersWellFormed ==
    pc = "parsed" =>
        \A i \in 1..Len(parsed) :
            /\ parsed[i].title # <<>>
            /\ parsed[i].summary # <<>>
            /\ \A k \in 1..Len(parsed[i].authors) : parsed[i].authors[k] # PyNone

(***************************************************************************)
(* The menu loop (src/arxiv_fetcher.py 149-209).  One action is one pass   *)
(* of the loop: the choice read, its branch run to the end.  An exception  *)
(* no handler catches ends the program (pc = "crashed").                   *)
(***************************************************************************)
\* fetch_arxiv_papers: [] when urlopen, read, decode or the XML parser raised
fetch_arxiv_papers(failed, entries) ==
    IF failed THEN <<>> ELSE parse_arxiv_results(entries)

\* Faulty variant: the test `papers is not None' in the place of `if papers:'.
IsNotNone(papers) == TRUE

\* `if papers:'
Truthy(papers) == papers # <<>>

\* summarize_papers raises TypeError: ', '.join(authors) with None among them
SummarizeRaises(papers) ==
    \E i \in 1..Len(papers) : \E k \in 1..Len(papers[i].authors) :
        papers[i].authors[k] = PyNone

\* filter_papers_by_author raises AttributeError: author.lower() of None,
\* reached before an author that equals the name
RECURSIVE AuthorTestRaises(_, _)
AuthorTestRaises(authors, name) ==
    IF authors = <<>> THEN FALSE
    ELSE IF Head(authors) = PyNone THEN TRUE
    ELSE IF Lower(Head(authors)) = Lower(name) THEN FALSE
    ELSE AuthorTestRaises(Tail(authors), name)

FilterRaises(papers, name) ==
    \E i \in 1..Len(papers) : AuthorTestRaises(papers[i].authors, name)

MenuFeedPool ==
    { [title |-> XmlText(<<Space, "A", "b", Space>>),
       authors |-> <<XmlText(<<"a", "b">>), XmlText(<<"B">>)>>,
       summary |-> XmlText(<<"a", Space, "A">>)],
      [title |-> XmlText(<<"a">>), authors |-> <<XmlText(<<"a", "b">>)>>,
       summary |-> XmlText(<<"b">>)],
      [title |-> XmlText(<<Space>>), authors |-> <<>>,
       summary |-> XmlText(<<Space>>)],
      [title |-> Missing, authors |-> <<XmlText(<<"a", "b">>)>>,
       summary |-> XmlText(<<"b">>)],
      [title |-> XmlText(<<"a">>), authors |-> <<NoText>>,
       summary |-> XmlText(<<"b">>)] }

\* what the user types at the author / keyword prompts
MenuArgs == {<<>>, <<"a">>, <<"b">>, <<"A", "B">>, <<"B">>}

Coll == heap[papersRef]

\* the heap once the previous pass's local lists are gone
Live == [r \in {papersRef} |-> heap[r]]

NothingInvoked ==
    /\ heap' = Live
    /\ resultRef' = 0 /\ arg' = <<>> /\ called' = "none" /\ input0' = Coll
    /\ UNCHANGED papersRef

\* a collection operation on the session's papers, then summarize_papers
Operate(fn, a, raises, contents) ==
    /\ arg' = a /\ called' = fn /\ input0' = Coll
    /\ UNCHANGED papersRef
    /\ IF raises
       THEN heap' = Live /\ resultRef' = 0 /\ pc' = "crashed"
       ELSE LET out == NewList(Live, papersRef, contents)
            IN /\ heap' = out.heap
               /\ resultRef' = out.ref
               /\ pc' = IF SummarizeRaises(contents) THEN "crashed" ELSE "menu"

Choice1 ==
    /\ pc = "menu"
    /\ choice' = "1"
    /\ resultRef' = 0 /\ arg' = <<>> /\ input0' = Coll
    /\ \/ \* int(input(...)) raises ValueError
          /\ heap' = Live /\ called' = "none" /\ pc' = "crashed"
          /\ UNCHANGED <<papersRef, parseVars>>
       \/ \E failed \in BOOLEAN : \E n \in 0..MaxEntries : \E entries \in [1..n -> MenuFeedPool] :
            LET got == fetch_arxiv_papers(failed, entries)
                out == NewList(Live, papersRef, got)
            IN /\ failed => n = 0
               /\ fetchError' = failed /\ parsed' = got /\ UNCHANGED data
               /\ heap' = [r \in {out.ref} |-> out.heap[r]]
               /\ papersRef' = out.ref
               /\ called' = "fetch"
               /\ pc' = IF Truthy(got) /\ SummarizeRaises(got) THEN "crashed" ELSE "menu"
    /\ UNCHANGED <<kwVars, svoVars>>

Choice2 ==
    /\ pc = "menu"
    /\ choice' = "2"
    /\ IF Truthy(Coll)
       THEN /\ heap' = Live /\ resultRef' = 0 /\ arg' = <<>> /\ input0' = Coll
            /\ called' = "save"
            /\ UNCHANGED papersRef
       ELSE NothingInvoked
    /\ UNCHANGED <<pc, kwVars, svoVars, parseVars>>

Choice3 ==
    /\ pc = "menu"
    /\ choice' = "3"
    /\ IF Truthy(Coll)
       THEN \E author \in MenuArgs :
                Operate("filter", author, FilterRaises(Coll, author),
                        filter_papers_by_author(Coll, author))
       ELSE NothingInvoked /\ UNCHANGED pc
    /\ UNCHANGED <<kwVars, svoVars, parseVars>>

Choice4 ==
    /\ pc = "menu"
    /\ choice' = "4"
    /\ IF Truthy(Coll)
       THEN \E keyword \in MenuArgs :
                Operate("search", keyword, FALSE, search_papers_by_title(Coll, keyword))
       ELSE NothingInvoked /\ UNCHANGED pc
    /\ UNCHANGED <<kwVars, svoVars, parseVars>>

Choice5 ==
    /\ pc = "menu"
    /\ choice' = "5"
    /\ IF Truthy(Coll)
       THEN \E keyword \in MenuArgs :
                Operate("rank", keyword, FALSE, rank_papers_by_keyword(Coll, keyword))
       ELSE NothingInvoked /\ UNCHANGED pc
    /\ UNCHANGED <<kwVars, svoVars, parseVars>>

\* generate_word_cloud may raise (WordCloud finds no word in the text)
Choice6 ==
    /\ pc = "menu"
    /\ choice' = "6"
    /\ IF Truthy(Coll)
       THEN /\ heap' = Live /\ resultRef' = 0 /\ arg' = <<>> /\ input0' = Coll
            /\ called' = "wordcloud"
            /\ pc' \in {"menu", "crashed"}
            /\ UNCHANGED papersRef
       ELSE NothingInvoked /\ UNCHANGED pc
    /\ UNCHANGED <<kwVars, svoVars, parseVars>>

Choice7 ==
    /\ pc = "menu"
    /\ choice' = "7"
    /\ NothingInvoked
    /\ pc' = "exited"
    /\ UNCHANGED <<kwVars, svoVars, parseVars>>

ChoiceInvalid ==
    /\ pc = "menu"
    /\ choice' \in {"", "8", "x"}
    /\ NothingInvoked
    /\ UNCHANGED <<pc, kwVars, svoVars, parseVars>>

InitMenu ==
    /\ heap = << <<>> >> /\ papersRef = 1 /\ resultRef = 0
    /\ arg = <<>> /\ called = "none" /\ input0 = <<>>
    /\ choice = "" /\ pc = "menu"
    /\ KwIdle /\ SvoIdle /\ ParseIdle

NextMenu ==
    \/ Choice1 \/ Choice2 \/ Choice3 \/ Choice4 \/ Choice5 \/ Choice6 \/ Choice7
    \/ ChoiceInvalid

SpecMenu == InitMenu /\ [][NextMenu]_vars

CollectionOps == {"save", "filter", "search", "rank", "wordcloud"}

C10_Step ==
    /\ heap'[papersRef'] # Coll => choice' = "1"
    /\ (choice' = "1" /\ called' = "fetch") =>
          /\ heap'[papersRef'] = parsed'
          /\ (fetchError' => parsed' = <<>>)
    /\ choice' # "1" => heap'[papersRef'] = Coll /\ papersRef' = papersRef
    /\ called' \in CollectionOps => choice' \in {"2", "3", "4", "5", "6"} /\ Coll # <<>>

\* C10: the session's collection changes only on choice 1, which replaces it
\* with what fetch_arxiv_papers returned (the empty list when the fetch
\* failed); choices 2 to 6 and invalid choices leave it as it is, and save,
\* filter, search, rank and word cloud are never invoked on an empty collection.
C10_CollectionChangesOnlyOnFetch == [][C10_Step]_vars

\* a ranking, shown in another order than the collection's, after which the
\* collection is the one fetched
C10_Witness ==
    /\ pc = "menu" /\ choice = "5" /\ called = "rank"
    /\ Result # Coll
    /\ Coll = parsed /\ Len(Coll) = MaxEntries

=============================================================================
